---- MODULE Spec2Model ----
(***************************************************************************)
(* State-machine model of the three contracts of sunagi/homare:            *)
(*   TaskRegistry   (src/foundry-deploy/src/TaskRegistry.sol, 14-292)      *)
(*   PayoutSplitter (src/foundry-deploy/src/TaskRegistry.sol, 308-566)     *)
(*   VerifierGateway (src/unnamed/part_004)                                *)
(* and of its risk scorers (src/lib/sybil-detection.ts,                    *)
(* src/unnamed/part_002), which ScorerSpec applies to every fingerprint.   *)
(*                                                                         *)
(* Every external function is one action.  A call whose require fails      *)
(* reverts: the EVM rolls the whole transaction back, so a rejected call   *)
(* is a stuttering step.  Its revert reason is the value of the            *)
(* function's ...Err operator, which evaluates the require statements in   *)
(* source order ("ok" when all pass); an action is enabled exactly when    *)
(* its ...Err operator yields "ok".                                        *)
(*                                                                         *)
(* No contract calls another one: _triggerVerification, _triggerPayout,    *)
(* _notifyTaskRegistry and _triggerOGComputeVerification make no external  *)
(* call.  Each contract's storage is therefore changed by its own actions  *)
(* only, and RegistrySpec, GatewaySpec and SplitterSpec explore one        *)
(* contract each; Spec is the three together.                              *)
(*                                                                         *)
(* Fields that no function ever reads (name, description, category,        *)
(* verificationCriteria, requiresKYC, proofData, completionTime,           *)
(* userCompletedTasks) are left out of the records.                        *)
(***************************************************************************)
EXTENDS Integers, Sequences, FiniteSets, TLC

(***************************************************************************)
(* Identities                                                              *)
(***************************************************************************)
ZeroAddr     == "0x0"
Owner        == "owner"
RegistryAddr == "registry"
GatewayAddr  == "gateway"
SplitterAddr == "splitter"
Users        == {"alice", "bob", "carol"}
Oracles      == {"orc1", "orc2"}
Tok          == "tok"
BadTok       == "badtok"

\* Externally owned accounts: the only identities that start a call.
EOAs == {Owner} \cup Users \cup Oracles

(***************************************************************************)
(* Bounds of the model                                                     *)
(***************************************************************************)
MaxTx       == 6    \* successful transactions in a run
MaxTasks    == 1    \* tasks created (nextTaskId stops at MaxTasks + 1)
MaxTime     == 3    \* block.timestamp runs over 1..MaxTime
MaxPayouts  == 2    \* runs of _triggerPayout per (task, user)
MaxRequests == 2    \* requests allocated (nextRequestId stops at MaxRequests + 1)
MaxPool     == 200  \* tokens ever sent to the PayoutSplitter

(***************************************************************************)
(* Input values                                                            *)
(***************************************************************************)
RewardAmounts == {0, 2}
Caps          == {0, 1, 2}
Durations     == {0, 1}
Thresholds    == {50}
Scores        == {40, 80}
Statuses      == {"ACTIVE", "PAUSED", "COMPLETED", "CANCELLED"}
TaskIds       == 1..MaxTasks
TokenArgs     == {ZeroAddr, Tok, BadTok}

VerificationTypes ==
    {"ONCHAIN_TRANSACTION", "OFFCHAIN_SOCIAL", "OFFCHAIN_GITHUB",
     "OFFCHAIN_DISCORD", "CUSTOM_ORACLE"}
TypeArgs      == {"ONCHAIN_TRANSACTION", "OFFCHAIN_SOCIAL"}
RequestIds    == 0..MaxRequests
ScoreArgs     == {80, 101}
HashArgs      == {"h1"}
RequestUsers  == {"alice"}

PayoutArgs    == {0, 10, 100}
FundAmounts   == {100}
WithdrawArgs  == {10}
Holders       == Users \cup {Owner, SplitterAddr}

VARIABLES
    \* TaskRegistry storage
    nextTaskId, tasks, taskCompletions, userTotalEarnings,
    verificationOracle, payoutSplitter, supportedTokens,
    \* number of times _triggerPayout ran for (task, user)
    payoutCount,
    \* VerifierGateway storage
    verificationRequests, authorizedOracles, oracleAddresses, oracleNonces,
    nextRequestId, gwTaskRegistry,
    \* PayoutSplitter storage
    referrals, registeredUsers, psTaskRegistry, platformWallet,
    psSupportedTokens,
    \* balanceOf of the reward token Tok, and the PayoutDistributed events
    balance, payoutLog,
    \* block.timestamp, and the number of successful transactions
    now, txCount,
    \* the risk scorers: the device fingerprint, and the last result returned
    fingerprint, scoreResult

regVars == <<nextTaskId, tasks, taskCompletions, userTotalEarnings,
             verificationOracle, payoutSplitter, supportedTokens, payoutCount>>
gwVars  == <<verificationRequests, authorizedOracles, oracleAddresses,
             oracleNonces, nextRequestId, gwTaskRegistry>>
psVars  == <<referrals, registeredUsers, psTaskRegistry, platformWallet,
             psSupportedTokens, balance, payoutLog>>
scVars  == <<fingerprint, scoreResult>>
vars == <<regVars, gwVars, psVars, now, txCount, scVars>>

\* One more successful transaction.
Tx == txCount < MaxTx /\ txCount' = txCount + 1

\* Ownable.onlyOwner
NotOwnerErr == "OwnableUnauthorizedAccount"

(***************************************************************************)
(* TaskRegistry                                                            *)
(***************************************************************************)
\* Storage default of mapping(uint256 => Task): all fields zero, and
\* TaskStatus(0) is ACTIVE.
EmptyTask ==
    [advertiser |-> ZeroAddr, status |-> "ACTIVE", rewardAmount |-> 0,
     rewardToken |-> ZeroAddr, maxParticipants |-> 0, currentParticipants |-> 0,
     startTime |-> 0, endTime |-> 0, sybilThreshold |-> 0]

EmptyCompletion == [completed |-> FALSE, verified |-> FALSE, sybilScore |-> 0]

\* Faulty variant: the duration is not tested.
TR_createTaskErr_NoDurationCheck(caller, reward, token, cap, duration) ==
    IF caller # Owner THEN NotOwnerErr
    ELSE IF ~(reward > 0) THEN "Reward amount must be greater than 0"
    ELSE IF token = ZeroAddr THEN "Invalid reward token address"
    ELSE IF token \notin supportedTokens THEN "Reward token not supported"
    ELSE IF ~(cap > 0) THEN "Max participants must be greater than 0"
    ELSE "ok"

TR_createTaskErr(caller, reward, token, cap, duration) ==
    IF caller # Owner THEN NotOwnerErr
    ELSE IF ~(reward > 0) THEN "Reward amount must be greater than 0"
    ELSE IF token = ZeroAddr THEN "Invalid reward token address"
    ELSE IF token \notin supportedTokens THEN "Reward token not supported"
    ELSE IF ~(cap > 0) THEN "Max participants must be greater than 0"
    ELSE IF ~(duration > 0) THEN "Duration must be greater than 0"
    ELSE "ok"

TR_createTask ==
    \E caller \in EOAs, reward \in RewardAmounts, token \in TokenArgs,
       cap \in Caps, duration \in Durations, threshold \in Thresholds :
        /\ TR_createTaskErr(caller, reward, token, cap, duration) = "ok"
        /\ nextTaskId <= MaxTasks
        /\ nextTaskId' = nextTaskId + 1
        /\ tasks' = [tasks EXCEPT ![nextTaskId] =
               [advertiser |-> caller, status |-> "ACTIVE",
                rewardAmount |-> reward, rewardToken |-> token,
                maxParticipants |-> cap, currentParticipants |-> 0,
                startTime |-> now, endTime |-> now + duration,
                sybilThreshold |-> threshold]]
        /\ Tx
        /\ UNCHANGED <<taskCompletions, userTotalEarnings, verificationOracle,
                       payoutSplitter, supportedTokens, payoutCount,
                       gwVars, psVars, now, scVars>>

\* Faulty variant: the cap test admits one participant too many.
TR_completeTaskErr_OffByOne(t, u) ==
    IF tasks[t].status # "ACTIVE" THEN "Task is not active"
    ELSE IF ~(now >= tasks[t].startTime /\ now <= tasks[t].endTime)
        THEN "Task not in valid time range"
    ELSE IF ~(tasks[t].currentParticipants <= tasks[t].maxParticipants)
        THEN "Task is full"
    ELSE IF taskCompletions[t][u].completed THEN "Task already completed by user"
    ELSE "ok"

\* Faulty variant: the test for an existing completion is missing.
TR_completeTaskErr_NoDuplicateCheck(t, u) ==
    IF tasks[t].status # "ACTIVE" THEN "Task is not active"
    ELSE IF ~(now >= tasks[t].startTime /\ now <= tasks[t].endTime)
        THEN "Task not in valid time range"
    ELSE IF ~(tasks[t].currentParticipants < tasks[t].maxParticipants)
        THEN "Task is full"
    ELSE "ok"

\* Faulty variant: the window test excludes the end time itself.
TR_completeTaskErr_ExclusiveEnd(t, u) ==
    IF tasks[t].status # "ACTIVE" THEN "Task is not active"
    ELSE IF ~(now >= tasks[t].startTime /\ now < tasks[t].endTime)
        THEN "Task not in valid time range"
    ELSE IF ~(tasks[t].currentParticipants < tasks[t].maxParticipants)
        THEN "Task is full"
    ELSE IF taskCompletions[t][u].completed THEN "Task already completed by user"
    ELSE "ok"

TR_completeTaskErr(t, u) ==
    IF tasks[t].status # "ACTIVE" THEN "Task is not active"
    ELSE IF ~(now >= tasks[t].startTime /\ now <= tasks[t].endTime)
        THEN "Task not in valid time range"
    ELSE IF ~(tasks[t].currentParticipants < tasks[t].maxParticipants)
        THEN "Task is full"
    ELSE IF taskCompletions[t][u].completed THEN "Task already completed by user"
    ELSE "ok"

\* Faulty variant: the participant count is not incremented.
TR_completeTask_KeepsCount ==
    \E u \in Users, t \in TaskIds :
        /\ TR_completeTaskErr(t, u) = "ok"
        /\ taskCompletions' = [taskCompletions EXCEPT ![t][u] =
               [completed |-> TRUE, verified |-> FALSE, sybilScore |-> 0]]
        /\ Tx
        /\ UNCHANGED <<nextTaskId, tasks, userTotalEarnings, verificationOracle,
                       payoutSplitter, supportedTokens, payoutCount,
                       gwVars, psVars, now, scVars>>

\* _triggerVerification only emits TaskCompleted: it changes no state.
TR_completeTask ==
    \E u \in Users, t \in TaskIds :
        /\ TR_completeTaskErr(t, u) = "ok"
        /\ taskCompletions' = [taskCompletions EXCEPT ![t][u] =
               [completed |-> TRUE, verified |-> FALSE, sybilScore |-> 0]]
        /\ tasks' = [tasks EXCEPT ![t].currentParticipants = @ + 1]
        /\ Tx
        /\ UNCHANGED <<nextTaskId, userTotalEarnings, verificationOracle,
                       payoutSplitter, supportedTokens, payoutCount,
                       gwVars, psVars, now, scVars>>

\* Faulty variant: the caller is not compared with the oracle.
TR_verifyTaskCompletionErr_AnyCaller(caller, t, u) ==
    IF ~taskCompletions[t][u].completed THEN "Task not completed by user"
    ELSE "ok"

\* Faulty variant: a verdict is accepted only while the task is Active and
\* inside its window.
TR_verifyTaskCompletionErr_ActiveOnly(caller, t, u) ==
    IF caller # verificationOracle THEN "Only verification oracle can verify"
    ELSE IF ~taskCompletions[t][u].completed THEN "Task not completed by user"
    ELSE IF tasks[t].status # "ACTIVE" THEN "Task is not active"
    ELSE IF ~(now <= tasks[t].endTime) THEN "Task not in valid time range"
    ELSE "ok"

TR_verifyTaskCompletionErr(caller, t, u) ==
    IF caller # verificationOracle THEN "Only verification oracle can verify"
    ELSE IF ~taskCompletions[t][u].completed THEN "Task not completed by user"
    ELSE "ok"

\* Faulty variant: the score is not compared with the task's threshold.
PayoutDue_IgnoresScore(verified, score, threshold) ==
    verified

\* Faulty variant: the verified flag is not required.
PayoutDue_IgnoresVerified(verified, score, threshold) ==
    score >= threshold

\* The condition under which verifyTaskCompletion calls _triggerPayout.
PayoutDue(verified, score, threshold) ==
    verified /\ score >= threshold

\* _triggerPayout: credits the task's reward to the user.
TR_triggerPayout(t, u) ==
    /\ userTotalEarnings' =
           [userTotalEarnings EXCEPT ![u] = @ + tasks[t].rewardAmount]
    /\ payoutCount' = [payoutCount EXCEPT ![t][u] = @ + 1]

TR_verifyTaskCompletion ==
    \E caller \in EOAs, t \in TaskIds, u \in Users,
       verified \in BOOLEAN, score \in Scores :
        /\ TR_verifyTaskCompletionErr(caller, t, u) = "ok"
        /\ taskCompletions' = [taskCompletions EXCEPT ![t][u] =
               [@ EXCEPT !.verified = verified, !.sybilScore = score]]
        /\ IF PayoutDue(verified, score, tasks[t].sybilThreshold)
           THEN /\ payoutCount[t][u] < MaxPayouts
                /\ TR_triggerPayout(t, u)
           ELSE UNCHANGED <<userTotalEarnings, payoutCount>>
        /\ Tx
        /\ UNCHANGED <<nextTaskId, tasks, verificationOracle,
                       payoutSplitter, supportedTokens, gwVars, psVars, now, scVars>>

\* Faulty variant: the onlyOwner modifier is missing.
TR_updateTaskStatusErr_AnyCaller(caller, t) ==
    IF ~(t < nextTaskId) THEN "Task does not exist"
    ELSE "ok"

TR_updateTaskStatusErr(caller, t) ==
    IF caller # Owner THEN NotOwnerErr
    ELSE IF ~(t < nextTaskId) THEN "Task does not exist"
    ELSE "ok"

\* Faulty variant: the participant count is reset with the status.
TR_updateTaskStatus_ResetsCount ==
    \E caller \in EOAs, t \in TaskIds, s \in Statuses :
        /\ TR_updateTaskStatusErr(caller, t) = "ok"
        /\ tasks' = [tasks EXCEPT ![t].status = s, ![t].currentParticipants = 0]
        /\ Tx
        /\ UNCHANGED <<nextTaskId, taskCompletions, userTotalEarnings,
                       verificationOracle, payoutSplitter, supportedTokens,
                       payoutCount, gwVars, psVars, now, scVars>>

TR_updateTaskStatus ==
    \E caller \in EOAs, t \in TaskIds, s \in Statuses :
        /\ TR_updateTaskStatusErr(caller, t) = "ok"
        /\ tasks' = [tasks EXCEPT ![t].status = s]
        /\ Tx
        /\ UNCHANGED <<nextTaskId, taskCompletions, userTotalEarnings,
                       verificationOracle, payoutSplitter, supportedTokens,
                       payoutCount, gwVars, psVars, now, scVars>>

TR_setVerificationOracleErr(caller, oracle) ==
    IF caller # Owner THEN NotOwnerErr
    ELSE IF oracle = ZeroAddr THEN "Invalid oracle address"
    ELSE "ok"

TR_setVerificationOracle ==
    \E caller \in EOAs, oracle \in {ZeroAddr, GatewayAddr, "orc1"} :
        /\ TR_setVerificationOracleErr(caller, oracle) = "ok"
        /\ verificationOracle' = oracle
        /\ Tx
        /\ UNCHANGED <<nextTaskId, tasks, taskCompletions, userTotalEarnings,
                       payoutSplitter, supportedTokens, payoutCount,
                       gwVars, psVars, now, scVars>>

TR_setPayoutSplitterErr(caller, splitter) ==
    IF caller # Owner THEN NotOwnerErr
    ELSE IF splitter = ZeroAddr THEN "Invalid splitter address"
    ELSE "ok"

TR_setPayoutSplitter ==
    \E caller \in EOAs, splitter \in {ZeroAddr, SplitterAddr, "orc2"} :
        /\ TR_setPayoutSplitterErr(caller, splitter) = "ok"
        /\ payoutSplitter' = splitter
        /\ Tx
        /\ UNCHANGED <<nextTaskId, tasks, taskCompletions, userTotalEarnings,
                       verificationOracle, supportedTokens, payoutCount,
                       gwVars, psVars, now, scVars>>

TR_addSupportedTokenErr(caller) ==
    IF caller # Owner THEN NotOwnerErr ELSE "ok"

TR_addSupportedToken ==
    \E caller \in EOAs, token \in {ZeroAddr, Tok} :
        /\ TR_addSupportedTokenErr(caller) = "ok"
        /\ supportedTokens' = supportedTokens \cup {token}
        /\ Tx
        /\ UNCHANGED <<nextTaskId, tasks, taskCompletions, userTotalEarnings,
                       verificationOracle, payoutSplitter, payoutCount,
                       gwVars, psVars, now, scVars>>

\* block.timestamp advances between transactions.
Tick ==
    /\ now < MaxTime
    /\ now' = now + 1
    /\ UNCHANGED <<regVars, gwVars, psVars, txCount, scVars>>

(***************************************************************************)
(* VerifierGateway                                                         *)
(***************************************************************************)
\* The result fields as requestVerification stores them.
UnsetResult ==
    [verified |-> FALSE, sybilScore |-> 0, proofHash |-> "", timestamp |-> 0,
     verifier |-> ZeroAddr]

\* Storage default of mapping(uint256 => VerificationRequest);
\* VerificationType(0) is ONCHAIN_TRANSACTION.
EmptyRequest ==
    [taskId |-> 0, user |-> ZeroAddr, verificationType |-> "ONCHAIN_TRANSACTION",
     processed |-> FALSE, result |-> UnsetResult]

\* Faulty variant: the oracle of the verification type is not tested.
VG_requestVerificationErr_NoOracleCheck(caller, vtype) ==
    IF caller # gwTaskRegistry THEN "Only task registry can request verification"
    ELSE "ok"

VG_requestVerificationErr(caller, vtype) ==
    IF caller # gwTaskRegistry THEN "Only task registry can request verification"
    ELSE IF oracleAddresses[vtype] = ZeroAddr THEN "No oracle for verification type"
    ELSE "ok"

\* _triggerOGComputeVerification has an empty body.
VG_requestVerification ==
    \E caller \in EOAs, t \in TaskIds, u \in RequestUsers, vtype \in TypeArgs :
        /\ VG_requestVerificationErr(caller, vtype) = "ok"
        /\ nextRequestId <= MaxRequests
        /\ nextRequestId' = nextRequestId + 1
        /\ verificationRequests' = [verificationRequests EXCEPT ![nextRequestId] =
               [taskId |-> t, user |-> u, verificationType |-> vtype,
                processed |-> FALSE, result |-> UnsetResult]]
        /\ Tx
        /\ UNCHANGED <<authorizedOracles, oracleAddresses, oracleNonces,
                       gwTaskRegistry, regVars, psVars, now, scVars>>

\* Faulty variant: the score range is tested before the processed flag.
VG_completeVerificationErr_ScoreFirst(caller, id, score) ==
    IF caller \notin authorizedOracles
        THEN "Only authorized oracles can complete verification"
    ELSE IF ~(id < nextRequestId) THEN "Invalid request ID"
    ELSE IF ~(score >= 0 /\ score <= 100) THEN "Invalid sybil score"
    ELSE IF verificationRequests[id].processed THEN "Request already processed"
    ELSE "ok"

\* Faulty variant: the processed flag is not tested.
VG_completeVerificationErr_NoProcessedCheck(caller, id, score) ==
    IF caller \notin authorizedOracles
        THEN "Only authorized oracles can complete verification"
    ELSE IF ~(id < nextRequestId) THEN "Invalid request ID"
    ELSE IF ~(score >= 0 /\ score <= 100) THEN "Invalid sybil score"
    ELSE "ok"

\* Faulty variant: the score range is not tested.
VG_completeVerificationErr_NoScoreCheck(caller, id, score) ==
    IF caller \notin authorizedOracles
        THEN "Only authorized oracles can complete verification"
    ELSE IF ~(id < nextRequestId) THEN "Invalid request ID"
    ELSE IF verificationRequests[id].processed THEN "Request already processed"
    ELSE "ok"

\* _sybilScore is a uint256: `_sybilScore >= 0` always holds.
VG_completeVerificationErr(caller, id, score) ==
    IF caller \notin authorizedOracles
        THEN "Only authorized oracles can complete verification"
    ELSE IF ~(id < nextRequestId) THEN "Invalid request ID"
    ELSE IF verificationRequests[id].processed THEN "Request already processed"
    ELSE IF ~(score >= 0 /\ score <= 100) THEN "Invalid sybil score"
    ELSE "ok"

\* Faulty variant: the oracle's nonce is not incremented.
VG_completeVerification_KeepsNonce ==
    \E caller \in EOAs, id \in RequestIds, verified \in BOOLEAN,
       score \in ScoreArgs, hash \in HashArgs :
        /\ VG_completeVerificationErr(caller, id, score) = "ok"
        /\ verificationRequests' = [verificationRequests EXCEPT ![id] =
               [@ EXCEPT !.processed = TRUE,
                         !.result = [verified |-> verified, sybilScore |-> score,
                                     proofHash |-> hash, timestamp |-> now,
                                     verifier |-> caller]]]
        /\ Tx
        /\ UNCHANGED <<authorizedOracles, oracleAddresses, oracleNonces,
                       nextRequestId, gwTaskRegistry, regVars, psVars, now, scVars>>

\* _notifyTaskRegistry has an empty body: the TaskRegistry is not called.
VG_completeVerification ==
    \E caller \in EOAs, id \in RequestIds, verified \in BOOLEAN,
       score \in ScoreArgs, hash \in HashArgs :
        /\ VG_completeVerificationErr(caller, id, score) = "ok"
        /\ verificationRequests' = [verificationRequests EXCEPT ![id] =
               [@ EXCEPT !.processed = TRUE,
                         !.result = [verified |-> verified, sybilScore |-> score,
                                     proofHash |-> hash, timestamp |-> now,
                                     verifier |-> caller]]]
        /\ oracleNonces' = [oracleNonces EXCEPT ![caller] = @ + 1]
        /\ Tx
        /\ UNCHANGED <<authorizedOracles, oracleAddresses, nextRequestId,
                       gwTaskRegistry, regVars, psVars, now, scVars>>

VG_registerOracleErr(caller, oracle) ==
    IF caller # Owner THEN NotOwnerErr
    ELSE IF oracle = ZeroAddr THEN "Invalid oracle address"
    ELSE "ok"

VG_registerOracle ==
    \E caller \in EOAs, oracle \in Oracles \cup {ZeroAddr}, vtype \in TypeArgs :
        /\ VG_registerOracleErr(caller, oracle) = "ok"
        /\ authorizedOracles' = authorizedOracles \cup {oracle}
        /\ oracleAddresses' = [oracleAddresses EXCEPT ![vtype] = oracle]
        /\ Tx
        /\ UNCHANGED <<verificationRequests, oracleNonces, nextRequestId,
                       gwTaskRegistry, regVars, psVars, now, scVars>>

VG_removeOracleErr(caller, oracle) ==
    IF caller # Owner THEN NotOwnerErr
    ELSE IF oracle \notin authorizedOracles THEN "Oracle not registered"
    ELSE "ok"

\* Faulty variant: the loop over the verification types is missing.
VG_removeOracle_KeepsMappings ==
    \E caller \in EOAs, oracle \in Oracles :
        /\ VG_removeOracleErr(caller, oracle) = "ok"
        /\ authorizedOracles' = authorizedOracles \ {oracle}
        /\ Tx
        /\ UNCHANGED <<verificationRequests, oracleAddresses, oracleNonces,
                       nextRequestId, gwTaskRegistry, regVars, psVars, now, scVars>>

VG_removeOracle ==
    \E caller \in EOAs, oracle \in Oracles :
        /\ VG_removeOracleErr(caller, oracle) = "ok"
        /\ authorizedOracles' = authorizedOracles \ {oracle}
        /\ oracleAddresses' =
               [v \in VerificationTypes |->
                   IF oracleAddresses[v] = oracle THEN ZeroAddr
                   ELSE oracleAddresses[v]]
        /\ Tx
        /\ UNCHANGED <<verificationRequests, oracleNonces, nextRequestId,
                       gwTaskRegistry, regVars, psVars, now, scVars>>

VG_setTaskRegistryErr(caller, registry) ==
    IF caller # Owner THEN NotOwnerErr
    ELSE IF registry = ZeroAddr THEN "Invalid registry address"
    ELSE "ok"

VG_setTaskRegistry ==
    \E caller \in EOAs, registry \in {ZeroAddr, RegistryAddr, "alice"} :
        /\ VG_setTaskRegistryErr(caller, registry) = "ok"
        /\ gwTaskRegistry' = registry
        /\ Tx
        /\ UNCHANGED <<verificationRequests, authorizedOracles, oracleAddresses,
                       oracleNonces, nextRequestId, regVars, psVars, now, scVars>>

(***************************************************************************)
(* PayoutSplitter                                                          *)
(***************************************************************************)
TASK_COMPLETER_PERCENT    == 6000
DIRECT_REFERRER_PERCENT   == 2500
INDIRECT_REFERRER_PERCENT == 1500
PLATFORM_FEE_PERCENT      == 1000
MAX_REFERRAL_LEVELS       == 3

\* Storage default of mapping(address => ReferralData).
EmptyReferral ==
    [directReferrer |-> ZeroAddr, indirectReferrers |-> << >>, isActive |-> FALSE,
     totalEarnings |-> 0, directEarnings |-> 0, indirectEarnings |-> 0]

ReferralCodes == {"code-alice", "code-bob", "code-none"}

\* _getAddressFromReferralCode: the body is `return address(0)`.
getAddressFromReferralCode(code) == ZeroAddr

PS_registerWithReferralErr(caller, code) ==
    IF caller \in registeredUsers THEN "User already registered"
    ELSE IF getAddressFromReferralCode(code) = ZeroAddr THEN "Invalid referral code"
    ELSE IF getAddressFromReferralCode(code) = caller THEN "Cannot refer yourself"
    ELSE "ok"

\* The loop of registerWithReferral: c1, c2, c3 are currentReferrer at
\* i = 0, 1, 2.  referrals[caller].directReferrer is already c1 when the
\* loop reads the storage at i >= 1.
PS_referralChain(caller, c1) ==
    LET direct(a) == IF a = caller THEN c1 ELSE referrals[a].directReferrer
        c2 == direct(c1)
        c3 == IF c2 = ZeroAddr THEN ZeroAddr ELSE direct(c2)
    IN  <<c2, c3, ZeroAddr>>

\* Never enabled: getAddressFromReferralCode resolves no code.
PS_registerWithReferral ==
    \E caller \in Users, code \in ReferralCodes :
        /\ PS_registerWithReferralErr(caller, code) = "ok"
        /\ referrals' = [referrals EXCEPT ![caller] =
               [@ EXCEPT !.directReferrer = getAddressFromReferralCode(code),
                         !.indirectReferrers =
                             PS_referralChain(caller, getAddressFromReferralCode(code)),
                         !.isActive = TRUE]]
        /\ registeredUsers' = registeredUsers \cup {caller}
        /\ Tx
        /\ UNCHANGED <<psTaskRegistry, platformWallet, psSupportedTokens,
                       balance, payoutLog, regVars, gwVars, now, scVars>>

\* _calculateDistribution: four integer divisions.
calculateDistribution(totalReward) ==
    [taskCompleterReward    |-> (totalReward * TASK_COMPLETER_PERCENT) \div 10000,
     directReferrerReward   |-> (totalReward * DIRECT_REFERRER_PERCENT) \div 10000,
     indirectReferrerReward |-> (totalReward * INDIRECT_REFERRER_PERCENT) \div 10000,
     platformFee            |-> (totalReward * PLATFORM_FEE_PERCENT) \div 10000]

\* Faulty variant: a referrer share that has no referrer goes to the
\* platform wallet with the platform fee.
PS_transfers_UnclaimedToPlatform(completer, totalReward) ==
    LET d   == calculateDistribution(totalReward)
        r   == referrals[completer]
        per == d.indirectReferrerReward \div MAX_REFERRAL_LEVELS
        ind == SelectSeq([i \in 1..Len(r.indirectReferrers) |->
                             <<r.indirectReferrers[i], per, "indirect">>],
                         LAMBDA x : x[1] # ZeroAddr)
        unclaimed == (IF r.directReferrer = ZeroAddr
                      THEN d.directReferrerReward ELSE 0)
                     + d.indirectReferrerReward - per * Len(ind)
    IN  << <<completer, d.taskCompleterReward, "completer">> >>
        \o (IF r.directReferrer # ZeroAddr
            THEN << <<r.directReferrer, d.directReferrerReward, "direct">> >>
            ELSE << >>)
        \o ind
        \o << <<platformWallet, d.platformFee + unclaimed, "platform">> >>

\* The safeTransfer calls of distributePayout, in order, as <<to, amount, role>>.
PS_transfers(completer, totalReward) ==
    LET d   == calculateDistribution(totalReward)
        r   == referrals[completer]
        per == d.indirectReferrerReward \div MAX_REFERRAL_LEVELS
        ind == IF d.indirectReferrerReward > 0
               THEN SelectSeq([i \in 1..Len(r.indirectReferrers) |->
                                  <<r.indirectReferrers[i], per, "indirect">>],
                              LAMBDA x : x[1] # ZeroAddr)
               ELSE << >>
    IN  (IF d.taskCompleterReward > 0
         THEN << <<completer, d.taskCompleterReward, "completer">> >> ELSE << >>)
        \o (IF r.directReferrer # ZeroAddr /\ d.directReferrerReward > 0
            THEN << <<r.directReferrer, d.directReferrerReward, "direct">> >>
            ELSE << >>)
        \o ind
        \o (IF d.platformFee > 0
            THEN << <<platformWallet, d.platformFee, "platform">> >> ELSE << >>)

RECURSIVE SumTo(_, _, _)
\* Sum of the amounts of the transfers xs that go to `to` in a role of `roles`.
SumTo(xs, to, roles) ==
    IF xs = << >> THEN 0
    ELSE (IF Head(xs)[1] = to /\ Head(xs)[3] \in roles THEN Head(xs)[2] ELSE 0)
         + SumTo(Tail(xs), to, roles)

RECURSIVE SumAll(_)
SumAll(xs) == IF xs = << >> THEN 0 ELSE Head(xs)[2] + SumAll(Tail(xs))

AllRoles == {"completer", "direct", "indirect", "platform"}

\* Faulty variant: the pool balance is not compared with the total reward.
PS_distributePayoutErr_NoBalanceCheck(caller, completer, totalReward, token) ==
    IF caller # psTaskRegistry THEN "Only task registry can trigger payout"
    ELSE IF token \notin psSupportedTokens THEN "Token not supported"
    ELSE IF ~(totalReward > 0) THEN "Invalid reward amount"
    ELSE IF SumAll(PS_transfers(completer, totalReward)) > balance[SplitterAddr]
        THEN "ERC20InsufficientBalance"
    ELSE "ok"

\* The requires of distributePayout, then SafeERC20: a transfer the pool
\* cannot cover reverts the whole call.
PS_distributePayoutErr(caller, completer, totalReward, token) ==
    IF caller # psTaskRegistry THEN "Only task registry can trigger payout"
    ELSE IF token \notin psSupportedTokens THEN "Token not supported"
    ELSE IF ~(totalReward > 0) THEN "Invalid reward amount"
    ELSE IF ~(balance[SplitterAddr] >= totalReward) THEN "Insufficient contract balance"
    ELSE IF SumAll(PS_transfers(completer, totalReward)) > balance[SplitterAddr]
        THEN "ERC20InsufficientBalance"
    ELSE "ok"

\* Faulty variant: the earnings fields are assigned instead of increased.
PS_distributePayout_OverwritesEarnings ==
    \E caller \in EOAs, completer \in Users, t \in TaskIds,
       totalReward \in PayoutArgs, token \in {Tok, BadTok} :
        LET xs == PS_transfers(completer, totalReward)
            d  == calculateDistribution(totalReward)
        IN
        /\ PS_distributePayoutErr(caller, completer, totalReward, token) = "ok"
        /\ balance' = [a \in Holders |->
               balance[a] + SumTo(xs, a, AllRoles)
               - (IF a = SplitterAddr THEN SumAll(xs) ELSE 0)]
        /\ referrals' = [a \in Users |->
               [referrals[a] EXCEPT
                   !.totalEarnings =
                       IF SumTo(xs, a, {"completer", "direct", "indirect"}) > 0
                       THEN SumTo(xs, a, {"completer", "direct", "indirect"}) ELSE @,
                   !.directEarnings = @ + SumTo(xs, a, {"direct"}),
                   !.indirectEarnings = @ + SumTo(xs, a, {"indirect"})]]
        /\ payoutLog' = Append(payoutLog,
               [taskCompleter |-> completer, taskId |-> t,
                totalAmount |-> totalReward,
                completerAmount |-> d.taskCompleterReward,
                referrerAmount |-> d.directReferrerReward + d.indirectReferrerReward,
                platformAmount |-> d.platformFee])
        /\ Tx
        /\ UNCHANGED <<registeredUsers, psTaskRegistry, platformWallet,
                       psSupportedTokens, regVars, gwVars, now, scVars>>

PS_distributePayout ==
    \E caller \in EOAs, completer \in Users, t \in TaskIds,
       totalReward \in PayoutArgs, token \in {Tok, BadTok} :
        LET xs == PS_transfers(completer, totalReward)
            d  == calculateDistribution(totalReward)
        IN
        /\ PS_distributePayoutErr(caller, completer, totalReward, token) = "ok"
        /\ balance' = [a \in Holders |->
               balance[a] + SumTo(xs, a, AllRoles)
               - (IF a = SplitterAddr THEN SumAll(xs) ELSE 0)]
        /\ referrals' = [a \in Users |->
               [referrals[a] EXCEPT
                   !.totalEarnings = @ + SumTo(xs, a, {"completer", "direct", "indirect"}),
                   !.directEarnings = @ + SumTo(xs, a, {"direct"}),
                   !.indirectEarnings = @ + SumTo(xs, a, {"indirect"})]]
        /\ payoutLog' = Append(payoutLog,
               [taskCompleter |-> completer, taskId |-> t,
                totalAmount |-> totalReward,
                completerAmount |-> d.taskCompleterReward,
                referrerAmount |-> d.directReferrerReward + d.indirectReferrerReward,
                platformAmount |-> d.platformFee])
        /\ Tx
        /\ UNCHANGED <<registeredUsers, psTaskRegistry, platformWallet,
                       psSupportedTokens, regVars, gwVars, now, scVars>>

PS_addSupportedTokenErr(caller) ==
    IF caller # Owner THEN NotOwnerErr ELSE "ok"

PS_addSupportedToken ==
    \E caller \in EOAs, token \in {Tok} :
        /\ PS_addSupportedTokenErr(caller) = "ok"
        /\ psSupportedTokens' = psSupportedTokens \cup {token}
        /\ Tx
        /\ UNCHANGED <<referrals, registeredUsers, psTaskRegistry, platformWallet,
                       balance, payoutLog, regVars, gwVars, now, scVars>>

PS_setPlatformWalletErr(caller, wallet) ==
    IF caller # Owner THEN NotOwnerErr
    ELSE IF wallet = ZeroAddr THEN "Invalid wallet address"
    ELSE "ok"

PS_setPlatformWallet ==
    \E caller \in EOAs, wallet \in {ZeroAddr, Owner, "carol"} :
        /\ PS_setPlatformWalletErr(caller, wallet) = "ok"
        /\ platformWallet' = wallet
        /\ Tx
        /\ UNCHANGED <<referrals, registeredUsers, psTaskRegistry,
                       psSupportedTokens, balance, payoutLog, regVars, gwVars, now, scVars>>

PS_setTaskRegistryErr(caller, registry) ==
    IF caller # Owner THEN NotOwnerErr
    ELSE IF registry = ZeroAddr THEN "Invalid registry address"
    ELSE "ok"

PS_setTaskRegistry ==
    \E caller \in EOAs, registry \in {ZeroAddr, RegistryAddr, "bob"} :
        /\ PS_setTaskRegistryErr(caller, registry) = "ok"
        /\ psTaskRegistry' = registry
        /\ Tx
        /\ UNCHANGED <<referrals, registeredUsers, platformWallet,
                       psSupportedTokens, balance, payoutLog, regVars, gwVars, now, scVars>>

\* onlyOwner, then SafeERC20.
PS_emergencyWithdrawErr(caller, amount) ==
    IF caller # Owner THEN NotOwnerErr
    ELSE IF amount > balance[SplitterAddr] THEN "ERC20InsufficientBalance"
    ELSE "ok"

\* Faulty variant: no onlyOwner, and the tokens go to msg.sender.
PS_emergencyWithdraw_ToCaller ==
    \E caller \in EOAs \ Oracles, amount \in WithdrawArgs :
        /\ amount <= balance[SplitterAddr]
        /\ balance' = [balance EXCEPT ![SplitterAddr] = @ - amount,
                                      ![caller] = @ + amount]
        /\ Tx
        /\ UNCHANGED <<referrals, registeredUsers, psTaskRegistry, platformWallet,
                       psSupportedTokens, payoutLog, regVars, gwVars, now, scVars>>

PS_emergencyWithdraw ==
    \E caller \in EOAs, amount \in WithdrawArgs :
        /\ PS_emergencyWithdrawErr(caller, amount) = "ok"
        /\ balance' = [balance EXCEPT ![SplitterAddr] = @ - amount,
                                      ![Owner] = @ + amount]
        /\ Tx
        /\ UNCHANGED <<referrals, registeredUsers, psTaskRegistry, platformWallet,
                       psSupportedTokens, payoutLog, regVars, gwVars, now, scVars>>

\* The token contract is outside the repository: anyone may send Tok to
\* the PayoutSplitter.
FundPool ==
    \E amount \in FundAmounts :
        /\ balance[SplitterAddr] + amount <= MaxPool
        /\ balance' = [balance EXCEPT ![SplitterAddr] = @ + amount]
        /\ Tx
        /\ UNCHANGED <<referrals, registeredUsers, psTaskRegistry, platformWallet,
                       psSupportedTokens, payoutLog, regVars, gwVars, now, scVars>>

(***************************************************************************)
(* Risk scorers (src/lib/sybil-detection.ts, src/unnamed/part_002)         *)
(*                                                                         *)
(* A fingerprint carries the fields calculateSybilScore reads.  A string   *)
(* `includes` test is the membership of the value in the set of the        *)
(* model's values that contain the substring.                              *)
(***************************************************************************)
UserAgents        == {"Mozilla/5.0", "HeadlessChrome/120", "PhantomJS/2.1"}
AutomatedAgents   == {"HeadlessChrome/120", "PhantomJS/2.1"}
ScreenResolutions == {"1920x1080", "390x844"}
Timezones         == {"UTC", "America/New_York", "Asia/Tokyo"}
Languages         == {"en-US", "ja"}
Platforms         == {"Win32", "Linux Mobile"}
MobilePlatforms   == {"Linux Mobile"}

Fingerprints ==
    [userAgent : UserAgents, screenResolution : ScreenResolutions,
     timezone : Timezones, language : Languages, platform : Platforms,
     cookieEnabled : BOOLEAN, doNotTrack : {"1", ""},
     hardwareConcurrency : {1, 8}, maxTouchPoints : {0, 5}]

\* generateDeviceFingerprint without a window (server-side rendering).
ServerFingerprint ==
    [userAgent |-> "", screenResolution |-> "", timezone |-> "",
     language |-> "", platform |-> "", cookieEnabled |-> FALSE,
     doNotTrack |-> "", hardwareConcurrency |-> 0, maxTouchPoints |-> 0]

\* Math.max(0, Math.min(100, score))
ClampScore(score) ==
    LET m == IF score < 100 THEN score ELSE 100
    IN  IF m > 0 THEN m ELSE 0

\* The if / else-if chain that both local scorers end with.
RiskLevelOf(score) ==
    IF score >= 80 THEN "LOW" ELSE IF score >= 60 THEN "MEDIUM" ELSE "HIGH"

calculateSybilScore(fp) ==
    LET raw == 100
            - (IF fp.userAgent \in AutomatedAgents THEN 30 ELSE 0)
            - (IF fp.screenResolution = "1920x1080" /\ fp.timezone = "UTC"
               THEN 15 ELSE 0)
            - (IF fp.hardwareConcurrency < 2 THEN 10 ELSE 0)
            - (IF fp.maxTouchPoints = 0 /\ fp.platform \in MobilePlatforms
               THEN 20 ELSE 0)
            - (IF ~fp.cookieEnabled THEN 15 ELSE 0)
            - (IF fp.doNotTrack = "1" THEN 5 ELSE 0)
            + (IF fp.language # "en-US" /\ fp.language # "en" THEN 5 ELSE 0)
            + (IF fp.timezone # "UTC" /\ fp.timezone # "America/New_York"
               THEN 5 ELSE 0)
        score == ClampScore(raw)
    IN  [score |-> score, riskLevel |-> RiskLevelOf(score)]

\* What advancedSybilDetection reads besides the fingerprint: the lengths of
\* transactionHistory, of the stored walletFingerprints and of
\* socialConnections, and the age of the stored accountCreationTime
\* ("none": nothing stored, or a value parseInt does not read).
HistoryInputs ==
    [transactions : {0, 5}, wallets : {3, 4}, socials : {0, 1},
     account : {"none", "recent", "old"}]

advancedSybilDetection(fp, h) ==
    LET raw == calculateSybilScore(fp).score
            - (IF h.transactions < 5 THEN 10 ELSE 0)
            - (IF h.wallets > 3 THEN 20 ELSE 0)
            - (IF h.socials = 0 THEN 5 ELSE 0)
            - (IF h.account = "recent" THEN 15 ELSE 0)
        score == ClampScore(raw)
    IN  [score |-> score, riskLevel |-> RiskLevelOf(score)]

\* A JavaScript number: NaN, or an integer value.
NaN      == [isNaN |-> TRUE, value |-> 0]
Num(n)   == [isNaN |-> FALSE, value |-> n]

DigitChars == <<"0", "1", "2", "3", "4", "5", "6", "7", "8", "9">>

DigitValue(c) == (CHOOSE i \in 1..10 : DigitChars[i] = c) - 1

RECURSIVE DecimalValue(_)
DecimalValue(cs) ==
    IF cs = << >> THEN 0
    ELSE DecimalValue(SubSeq(cs, 1, Len(cs) - 1)) * 10 + DigitValue(cs[Len(cs)])

\* Number(string) on a string of digits, '-' and letters, given as its
\* sequence of characters: the empty string is 0, an optionally negated
\* run of digits is its value, anything else is NaN.
Number(cs) ==
    IF cs = << >> THEN Num(0)
    ELSE LET neg  == cs[1] = "-"
             body == IF neg THEN Tail(cs) ELSE cs
         IN  IF body = << >> \/ \E i \in 1..Len(body) :
                                   \A j \in 1..10 : DigitChars[j] # body[i]
             THEN NaN
             ELSE Num(IF neg THEN 0 - DecimalValue(body) ELSE DecimalValue(body))

\* What the remote service does: the request throws (no key, no service, a
\* status that is not ok), the response has no message content, or it has
\* the content `chars`.
NoRemote == [kind |-> "none", chars |-> << >>]

RemoteAnswers ==
    {[kind |-> "throws", chars |-> << >>], [kind |-> "noContent", chars |-> << >>]}
    \cup {[kind |-> "content", chars |-> cs] :
            cs \in {<< >>, <<"0">>, <<"8", "0">>, <<"1", "0", "0">>,
                    <<"1", "5", "0">>, <<"-", "5">>, <<"-">>, <<"o", "k">>}}

getOGComputeSybilScore(fp, remote) ==
    IF remote.kind = "throws" THEN calculateSybilScore(fp).score
    ELSE LET score == IF remote.kind = "noContent" THEN NaN
                      ELSE Number(remote.chars)
         IN  IF score.isNaN THEN calculateSybilScore(fp).score
             ELSE score.value

NoResult == [fn |-> "none", score |-> 0, riskLevel |-> "", remote |-> NoRemote]

CalculateSybilScore ==
    /\ scoreResult' =
           [fn |-> "calculateSybilScore",
            score |-> calculateSybilScore(fingerprint).score,
            riskLevel |-> calculateSybilScore(fingerprint).riskLevel,
            remote |-> NoRemote]
    /\ UNCHANGED <<fingerprint, regVars, gwVars, psVars, now, txCount>>

AdvancedSybilDetection ==
    \E h \in HistoryInputs :
        /\ scoreResult' =
               [fn |-> "advancedSybilDetection",
                score |-> advancedSybilDetection(fingerprint, h).score,
                riskLevel |-> advancedSybilDetection(fingerprint, h).riskLevel,
                remote |-> NoRemote]
        /\ UNCHANGED <<fingerprint, regVars, gwVars, psVars, now, txCount>>

\* getOGComputeSybilScore returns a number and no risk level.
GetOGComputeSybilScore ==
    \E remote \in RemoteAnswers :
        /\ scoreResult' =
               [fn |-> "getOGComputeSybilScore",
                score |-> getOGComputeSybilScore(fingerprint, remote),
                riskLevel |-> "", remote |-> remote]
        /\ UNCHANGED <<fingerprint, regVars, gwVars, psVars, now, txCount>>

(***************************************************************************)
(* Initial state: the contracts as the deployment script constructs them   *)
(* (VerifierGateway(address(0)), PayoutSplitter(address(0), deployer),     *)
(* TaskRegistry(gateway, splitter)).                                       *)
(***************************************************************************)
ContractsInit ==
    /\ nextTaskId = 1
    /\ tasks = [t \in TaskIds |-> EmptyTask]
    /\ taskCompletions = [t \in TaskIds |-> [u \in Users |-> EmptyCompletion]]
    /\ userTotalEarnings = [u \in Users |-> 0]
    /\ verificationOracle = GatewayAddr
    /\ payoutSplitter = SplitterAddr
    /\ supportedTokens = {}
    /\ payoutCount = [t \in TaskIds |-> [u \in Users |-> 0]]
    /\ verificationRequests = [id \in RequestIds |-> EmptyRequest]
    /\ authorizedOracles = {}
    /\ oracleAddresses = [v \in VerificationTypes |-> ZeroAddr]
    /\ oracleNonces = [a \in EOAs |-> 0]
    /\ nextRequestId = 1
    /\ gwTaskRegistry = ZeroAddr
    /\ referrals = [a \in Users |-> EmptyReferral]
    /\ registeredUsers = {}
    /\ psTaskRegistry = ZeroAddr
    /\ platformWallet = Owner
    /\ psSupportedTokens = {}
    /\ balance = [a \in Holders |-> 0]
    /\ payoutLog = << >>
    /\ now = 1
    /\ txCount = 0

Init ==
    /\ ContractsInit
    /\ fingerprint = ServerFingerprint
    /\ scoreResult = NoResult

\* The scorers are applied to every fingerprint of the model.
ScorerInit ==
    /\ ContractsInit
    /\ fingerprint \in Fingerprints
    /\ scoreResult = NoResult

RegistryNext ==
    \/ TR_createTask
    \/ TR_completeTask
    \/ TR_verifyTaskCompletion
    \/ TR_updateTaskStatus
    \/ TR_setVerificationOracle
    \/ TR_setPayoutSplitter
    \/ TR_addSupportedToken
    \/ Tick

GatewayNext ==
    \/ VG_requestVerification
    \/ VG_completeVerification
    \/ VG_registerOracle
    \/ VG_removeOracle
    \/ VG_setTaskRegistry

SplitterNext ==
    \/ PS_distributePayout
    \/ PS_addSupportedToken
    \/ PS_setPlatformWallet
    \/ PS_setTaskRegistry
    \/ PS_emergencyWithdraw
    \/ FundPool

Next == RegistryNext \/ GatewayNext \/ SplitterNext

RegistrySpec == Init /\ [][RegistryNext]_vars
GatewaySpec  == Init /\ [][GatewayNext]_vars
SplitterSpec == Init /\ [][SplitterNext]_vars
Spec         == Init /\ [][Next]_vars

\* The owner-only functions of the three contracts.
AdminNext ==
    \/ TR_createTask
    \/ TR_updateTaskStatus
    \/ TR_setVerificationOracle
    \/ TR_setPayoutSplitter
    \/ TR_addSupportedToken
    \/ VG_registerOracle
    \/ VG_removeOracle
    \/ VG_setTaskRegistry
    \/ PS_addSupportedToken
    \/ PS_setPlatformWallet
    \/ PS_setTaskRegistry

AdminSpec == Init /\ [][AdminNext]_vars

ScorerNext ==
    \/ CalculateSybilScore
    \/ AdvancedSybilDetection
    \/ GetOGComputeSybilScore

ScorerSpec == ScorerInit /\ [][ScorerNext]_vars

(***************************************************************************)
(* Properties                                                              *)
(***************************************************************************)
Participants(t) == {u \in Users : taskCompletions[t][u].completed}

InWindow(t) == now >= tasks[t].startTime /\ now <= tasks[t].endTime

RECURSIVE RewardsOf(_, _)
\* Sum of the rewards of the tasks 1..n for which u has a completion.
RewardsOf(u, n) ==
    IF n = 0 THEN 0
    ELSE (IF taskCompletions[n][u].completed THEN tasks[n].rewardAmount ELSE 0)
         + RewardsOf(u, n - 1)

\* C1: for every (task, participant) the settlement is triggered at most
\* once, and a participant is credited each completed task's reward at most
\* once, whatever verdicts are delivered.
C1_AtMostOnePayout ==
    /\ \A t \in TaskIds, u \in Users : payoutCount[t][u] <= 1
    /\ \A u \in Users : userTotalEarnings[u] <= RewardsOf(u, MaxTasks)

\* C2: a verdict step on an existing completion triggers the settlement
\* (one run of _triggerPayout, crediting the task's reward) if and only if
\* the delivered verdict is verified with a score >= the task's threshold;
\* otherwise it credits nothing.  It holds of every verdict, the first included.
C2_SettlementIffQualifies ==
    [][\A t \in TaskIds, u \in Users :
        LET c  == taskCompletions[t][u]
            c2 == taskCompletions'[t][u]
            due == c2.verified /\ c2.sybilScore >= tasks[t].sybilThreshold
        IN  (c.completed /\ (c2 # c \/ payoutCount'[t][u] # payoutCount[t][u]))
            => /\ payoutCount'[t][u] = payoutCount[t][u] + (IF due THEN 1 ELSE 0)
               /\ userTotalEarnings'[u] =
                      userTotalEarnings[u] + (IF due THEN tasks[t].rewardAmount ELSE 0)
      ]_vars

\* C2 witness: a verdict (verified = true, score below the threshold) was
\* delivered for a completion of a rewarded task: the completion is marked
\* verified, and nothing was paid.
C2_Witness ==
    \E t \in TaskIds, u \in Users :
        /\ tasks[t].rewardAmount > 0
        /\ taskCompletions[t][u].completed
        /\ taskCompletions[t][u].verified
        /\ taskCompletions[t][u].sybilScore < tasks[t].sybilThreshold
        /\ payoutCount[t][u] = 0 /\ userTotalEarnings[u] = 0

\* C3: in every settlement the computed shares add up to the gross amount:
\* completer + (direct + indirect referrers) + platform fee = total.
C3_SharesSumToGross ==
    \A i \in 1..Len(payoutLog) :
        payoutLog[i].completerAmount + payoutLog[i].referrerAmount
            + payoutLog[i].platformAmount = payoutLog[i].totalAmount

\* C4: every successful distributePayout moves exactly the gross reward out
\* of the pool.
C4_PoolPaysGross ==
    [][Len(payoutLog') > Len(payoutLog)
        => balance[SplitterAddr] - balance'[SplitterAddr]
               = payoutLog'[Len(payoutLog')].totalAmount
      ]_vars

\* C5: an issued request is only ever processed by the identity registered,
\* at the time of the call, as the oracle of the request's verification type.
C5_OnlyRegisteredVerifier ==
    [][\A id \in 1..MaxRequests :
        (~verificationRequests[id].processed /\ verificationRequests'[id].processed)
        => verificationRequests'[id].result.verifier
               = oracleAddresses[verificationRequests[id].verificationType]
      ]_vars

\* C6: completeVerification on a processed request is rejected for every
\* caller and every score, so it changes nothing; a caller that passes the
\* authorization check is rejected with "Request already processed".
C6_ProcessedIsRejected ==
    \A id \in RequestIds :
        verificationRequests[id].processed =>
            \A caller \in EOAs, score \in ScoreArgs :
                /\ VG_completeVerificationErr(caller, id, score) # "ok"
                /\ caller \in authorizedOracles =>
                       VG_completeVerificationErr(caller, id, score)
                           = "Request already processed"

\* C6 witness: a request issued by requestVerification is processed and the
\* oracle that answered it is still authorized (it may call again).
C6_Witness ==
    \E id \in RequestIds :
        /\ id >= 1 /\ id < nextRequestId
        /\ verificationRequests[id].processed
        /\ verificationRequests[id].result.verifier \in authorizedOracles
        /\ oracleNonces[verificationRequests[id].result.verifier] = 1

\* C7: an unprocessed request holds the unset result; a processed request
\* is never modified again (processed never returns to false, the result
\* is written once).
C7_ProcessedOnce ==
    /\ [](\A id \in RequestIds :
            ~verificationRequests[id].processed
                => verificationRequests[id].result = UnsetResult)
    /\ [][\A id \in RequestIds :
            verificationRequests[id].processed
                => verificationRequests'[id] = verificationRequests[id]
         ]_vars

\* C7 witness: one issued request is processed with its result recorded,
\* and another issued request is still unprocessed.
C7_Witness ==
    \E id \in RequestIds, other \in RequestIds :
        /\ id >= 1 /\ id < nextRequestId
        /\ verificationRequests[id].processed
        /\ verificationRequests[id].result.verifier \in Oracles
        /\ verificationRequests[id].result.timestamp > 0
        /\ other >= 1 /\ other < nextRequestId
        /\ ~verificationRequests[other].processed

\* C8: a task never holds more completions than its cap, its participant
\* count is the number of distinct participants accepted, and while it is
\* Active and inside its window a new participant is accepted when fewer
\* than cap participants were accepted and rejected with "Task is full"
\* otherwise.
C8_CapIsExact ==
    \A t \in TaskIds :
        /\ tasks[t].currentParticipants = Cardinality(Participants(t))
        /\ tasks[t].currentParticipants <= tasks[t].maxParticipants
        /\ (t < nextTaskId /\ tasks[t].status = "ACTIVE" /\ InWindow(t)) =>
               \A u \in Users \ Participants(t) :
                   TR_completeTaskErr(t, u) =
                       IF Cardinality(Participants(t)) < tasks[t].maxParticipants
                       THEN "ok" ELSE "Task is full"

\* C8 witness: a task with cap 2 accepted two distinct participants, is
\* still Active and inside its window, and a third participant is rejected
\* with "Task is full".
C8_Witness ==
    \E t \in TaskIds, u \in Users :
        /\ tasks[t].maxParticipants = 2
        /\ Cardinality(Participants(t)) = 2
        /\ tasks[t].status = "ACTIVE" /\ InWindow(t)
        /\ u \notin Participants(t)
        /\ TR_completeTaskErr(t, u) = "Task is full"

C10_StatusTransitions ==
    [][\A t \in TaskIds :
        tasks'[t].status # tasks[t].status
            => <<tasks[t].status, tasks'[t].status>> \in
                   {<<"ACTIVE", "PAUSED">>, <<"ACTIVE", "COMPLETED">>,
                    <<"ACTIVE", "CANCELLED">>, <<"PAUSED", "ACTIVE">>}
      ]_vars

\* C11: a completion is never deleted, and once it is verified no step
\* changes its verified flag or its stored score (a later verdict for the
\* pair is accepted and is a no-op).
C11_VerifiedIsStable ==
    [][\A t \in TaskIds, u \in Users :
        /\ taskCompletions[t][u].completed => taskCompletions'[t][u].completed
        /\ taskCompletions[t][u].verified =>
               /\ taskCompletions'[t][u].verified
               /\ taskCompletions'[t][u].sybilScore = taskCompletions[t][u].sybilScore
      ]_vars

\* C14: verifyTaskCompletion is accepted only from the configured
\* verification oracle and only for a pair that has a completion: every
\* other call is rejected (an oracle call for a pair without a completion
\* with "Task not completed by user"), a pair without a completion keeps
\* the empty record and is never paid, and no verdict takes effect while
\* the configured oracle is an identity that makes no call.
C14_OnlyOracleForCompletion ==
    /\ [](\A caller \in EOAs, t \in TaskIds, u \in Users :
            /\ TR_verifyTaskCompletionErr(caller, t, u) = "ok"
                   => (caller = verificationOracle /\ taskCompletions[t][u].completed)
            /\ (caller = verificationOracle /\ ~taskCompletions[t][u].completed)
                   => TR_verifyTaskCompletionErr(caller, t, u)
                          = "Task not completed by user")
    /\ [](\A t \in TaskIds, u \in Users :
            ~taskCompletions[t][u].completed
                => (taskCompletions[t][u] = EmptyCompletion /\ payoutCount[t][u] = 0))
    /\ [][\A t \in TaskIds, u \in Users :
            (\/ taskCompletions'[t][u].verified # taskCompletions[t][u].verified
             \/ taskCompletions'[t][u].sybilScore # taskCompletions[t][u].sybilScore
             \/ payoutCount'[t][u] # payoutCount[t][u])
                => (taskCompletions[t][u].completed /\ verificationOracle \in EOAs)
         ]_vars

\* C14 witness: the oracle was replaced by orc1, whose verdict for a
\* completion was accepted and paid, while a participant without a
\* completion on the same task still has the empty record.
C14_Witness ==
    \E t \in TaskIds, u \in Users, v \in Users :
        /\ verificationOracle = "orc1"
        /\ taskCompletions[t][u].completed /\ taskCompletions[t][u].verified
        /\ payoutCount[t][u] = 1
        /\ ~taskCompletions[t][v].completed
        /\ TR_verifyTaskCompletionErr("orc1", t, v) = "Task not completed by user"
        /\ TR_verifyTaskCompletionErr("alice", t, u) = "Only verification oracle can verify"

\* C15: createTask called by the owner is accepted exactly when the reward
\* is positive, the reward token is on the allow-list, the cap is positive
\* and the duration is positive.
C15_CreateTaskAcceptance ==
    \A reward \in RewardAmounts, token \in TokenArgs,
       cap \in Caps, duration \in Durations :
        (TR_createTaskErr(Owner, reward, token, cap, duration) = "ok")
            <=> (/\ reward > 0
                 /\ token \in supportedTokens
                 /\ cap > 0
                 /\ duration > 0)

\* C16: every accepted completeTask creates the completion with verified =
\* false, raises the task's participant count by exactly one, and leaves a
\* new unprocessed request for that task and participant in the gateway.
C16_CompletionIssuesRequest ==
    [][\A t \in TaskIds, u \in Users :
        (~taskCompletions[t][u].completed /\ taskCompletions'[t][u].completed)
            => /\ ~taskCompletions'[t][u].verified
               /\ tasks'[t].currentParticipants = tasks[t].currentParticipants + 1
               /\ nextRequestId' = nextRequestId + 1
               /\ nextRequestId \in RequestIds
               /\ verificationRequests'[nextRequestId].taskId = t
               /\ verificationRequests'[nextRequestId].user = u
               /\ ~verificationRequests'[nextRequestId].processed
      ]_vars

\* C17: when completeVerification processes an issued request, the verdict
\* is relayed to the registry in the same transaction: afterwards the
\* completion of the request's task and user carries the delivered
\* verified flag and score.
C17_VerdictIsRelayed ==
    [][\A id \in 1..MaxRequests :
        (~verificationRequests[id].processed /\ verificationRequests'[id].processed)
            => LET r == verificationRequests'[id]
                   c == taskCompletions'[r.taskId][r.user]
               IN  /\ c.verified = r.result.verified
                   /\ c.sybilScore = r.result.sybilScore
      ]_vars

\* C18: a request id that requestVerification never allocated (id 0 and
\* every id >= nextRequestId) is rejected by completeVerification with
\* "Invalid request ID" for every authorized caller, and its record is
\* never written.
C18_UnknownRequestRejected ==
    \A id \in RequestIds :
        (id = 0 \/ id >= nextRequestId) =>
            /\ verificationRequests[id] = EmptyRequest
            /\ \A caller \in authorizedOracles, score \in ScoreArgs :
                   VG_completeVerificationErr(caller, id, score) = "Invalid request ID"

\* C19: completeVerification with a score outside 0..100 is rejected by
\* every caller for every request (with "Invalid sybil score" when the
\* caller is authorized and the request is known and unprocessed), so the
\* request stays unprocessed and every processed request stores a score
\* between 0 and 100.
C19_ScoreInRange ==
    /\ \A id \in RequestIds :
           verificationRequests[id].processed
               => (/\ verificationRequests[id].result.sybilScore >= 0
                   /\ verificationRequests[id].result.sybilScore <= 100)
    /\ \A caller \in EOAs, id \in RequestIds, score \in ScoreArgs :
           ~(score >= 0 /\ score <= 100) =>
               /\ VG_completeVerificationErr(caller, id, score) # "ok"
               /\ (/\ caller \in authorizedOracles
                   /\ id < nextRequestId
                   /\ ~verificationRequests[id].processed)
                      => VG_completeVerificationErr(caller, id, score)
                             = "Invalid sybil score"

\* C19 witness: one issued request was processed with a score in range,
\* and an authorized oracle delivering score 101 for another issued,
\* unprocessed request is rejected with "Invalid sybil score".
C19_Witness ==
    \E id \in RequestIds, other \in RequestIds, caller \in authorizedOracles :
        /\ id >= 1 /\ id < nextRequestId
        /\ verificationRequests[id].processed
        /\ verificationRequests[id].result.sybilScore = 80
        /\ other >= 1 /\ other < nextRequestId
        /\ ~verificationRequests[other].processed
        /\ VG_completeVerificationErr(caller, other, 101) = "Invalid sybil score"

\* C20: requestVerification for a type without a registered oracle is
\* rejected for every caller (with "No oracle for verification type" when
\* the caller is the task registry) and allocates no id; an accepted call
\* stores an unprocessed request with the unset result under the id
\* nextRequestId, which is one more than the last id issued and whose
\* record was never written; ids from nextRequestId on are unused.
C20_RequestIdsAreFresh ==
    /\ [](\A vtype \in VerificationTypes, caller \in EOAs :
            oracleAddresses[vtype] = ZeroAddr =>
                /\ VG_requestVerificationErr(caller, vtype) # "ok"
                /\ caller = gwTaskRegistry
                       => VG_requestVerificationErr(caller, vtype)
                              = "No oracle for verification type")
    /\ [](\A id \in RequestIds :
            id >= nextRequestId => verificationRequests[id] = EmptyRequest)
    /\ [][nextRequestId' # nextRequestId =>
            /\ nextRequestId' = nextRequestId + 1
            /\ verificationRequests[nextRequestId] = EmptyRequest
            /\ ~verificationRequests'[nextRequestId].processed
            /\ verificationRequests'[nextRequestId].result = UnsetResult
            /\ oracleAddresses[verificationRequests'[nextRequestId].verificationType]
                   # ZeroAddr
            /\ \A id \in RequestIds :
                   id # nextRequestId
                       => verificationRequests'[id] = verificationRequests[id]
         ]_vars

\* C20 witness: two requests were issued under the ids 1 and 2, the first
\* was processed meanwhile, and the task registry's request for a type
\* without an oracle is rejected with "No oracle for verification type".
C20_Witness ==
    /\ nextRequestId = 3
    /\ verificationRequests[1].processed
    /\ ~verificationRequests[2].processed
    /\ verificationRequests[2].user # ZeroAddr
    /\ \E vtype \in TypeArgs :
           /\ oracleAddresses[vtype] = ZeroAddr
           /\ VG_requestVerificationErr(gwTaskRegistry, vtype)
                  = "No oracle for verification type"

\* C21: the step that removes an oracle clears every verification type that
\* mapped to it and leaves the other types' mappings unchanged; an identity
\* that is not authorized serves no type and each of its completeVerification
\* calls is rejected, until registerOracle authorizes it again.
C21_RemovedOracleIsOut ==
    /\ [](\A v \in EOAs \ authorizedOracles :
            /\ \A vtype \in VerificationTypes : oracleAddresses[vtype] # v
            /\ \A id \in RequestIds, score \in ScoreArgs :
                   VG_completeVerificationErr(v, id, score)
                       = "Only authorized oracles can complete verification")
    /\ [][\A v \in Oracles :
            (v \in authorizedOracles /\ v \notin authorizedOracles') =>
                \A vtype \in VerificationTypes :
                    /\ oracleAddresses'[vtype] # v
                    /\ oracleAddresses[vtype] # v
                           => oracleAddresses'[vtype] = oracleAddresses[vtype]
         ]_vars

\* C21 witness: orc1 answered a request and was removed afterwards: it is
\* not authorized and serves no type, while orc2 still serves its type.
C21_Witness ==
    /\ oracleNonces["orc1"] = 1
    /\ "orc1" \notin authorizedOracles
    /\ "orc2" \in authorizedOracles
    /\ \E vtype \in TypeArgs : oracleAddresses[vtype] = "orc2"
    /\ \A vtype \in VerificationTypes : oracleAddresses[vtype] # "orc1"

\* The processed requests whose recorded verifier is a.
AnsweredBy(a) ==
    {id \in RequestIds :
        verificationRequests[id].processed
            /\ verificationRequests[id].result.verifier = a}

\* C22: an oracle's nonce never decreases, grows by exactly one in a step
\* in which that oracle processes a request and in no other step, and
\* equals the number of processed requests it answered.
C22_NonceCountsAnswers ==
    /\ [](\A a \in EOAs : oracleNonces[a] = Cardinality(AnsweredBy(a)))
    /\ [][\A a \in EOAs :
            /\ oracleNonces'[a] >= oracleNonces[a]
            /\ oracleNonces'[a] # oracleNonces[a] <=>
                   \E id \in RequestIds :
                       /\ ~verificationRequests[id].processed
                       /\ verificationRequests'[id].processed
                       /\ verificationRequests'[id].result.verifier = a
            /\ oracleNonces'[a] # oracleNonces[a]
                   => oracleNonces'[a] = oracleNonces[a] + 1
         ]_vars

\* C22 witness: orc1 answered two issued requests and its nonce is 2, while
\* orc2, which answered nothing, has nonce 0.
C22_Witness ==
    /\ oracleNonces["orc1"] = 2
    /\ AnsweredBy("orc1") = {1, 2}
    /\ oracleNonces["orc2"] = 0

\* C23: in every reachable state of the three contracts, each owner-only
\* function called by an identity other than the owner is rejected by
\* onlyOwner, whatever its arguments, and so changes nothing.
C23_OnlyOwnerAdministers ==
    \A caller \in EOAs \ {Owner} :
        /\ \A reward \in RewardAmounts, token \in TokenArgs,
              cap \in Caps, duration \in Durations :
               TR_createTaskErr(caller, reward, token, cap, duration) = NotOwnerErr
        /\ \A t \in TaskIds : TR_updateTaskStatusErr(caller, t) = NotOwnerErr
        /\ \A a \in EOAs \cup {ZeroAddr, GatewayAddr, SplitterAddr, RegistryAddr} :
               /\ TR_setVerificationOracleErr(caller, a) = NotOwnerErr
               /\ TR_setPayoutSplitterErr(caller, a) = NotOwnerErr
               /\ VG_registerOracleErr(caller, a) = NotOwnerErr
               /\ VG_removeOracleErr(caller, a) = NotOwnerErr
               /\ VG_setTaskRegistryErr(caller, a) = NotOwnerErr
               /\ PS_setTaskRegistryErr(caller, a) = NotOwnerErr
               /\ PS_setPlatformWalletErr(caller, a) = NotOwnerErr
        /\ TR_addSupportedTokenErr(caller) = NotOwnerErr
        /\ PS_addSupportedTokenErr(caller) = NotOwnerErr

\* C23 witness: the owner has administered all three contracts (a task
\* exists, orc1 is registered, the platform wallet was changed), and alice's
\* updateTaskStatus and removeOracle calls on them are rejected by onlyOwner.
C23_Witness ==
    /\ nextTaskId = 2
    /\ "orc1" \in authorizedOracles
    /\ platformWallet = "carol"
    /\ TR_updateTaskStatusErr("alice", 1) = NotOwnerErr
    /\ VG_removeOracleErr("alice", "orc1") = NotOwnerErr
    /\ TR_updateTaskStatusErr(Owner, 1) = "ok"
    /\ VG_removeOracleErr(Owner, "orc1") = "ok"

\* C24: distributePayout is rejected whenever the caller is not the task
\* registry ("Only task registry can trigger payout"), else the token is
\* not supported ("Token not supported"), or the pool holds less than the
\* total reward; every payout that took place was made by a configured
\* registry, for a supported token, while the pool held at least its total
\* reward; and without an accepted payout no participant's balance and no
\* earnings record changes.
C24_PayoutPreconditions ==
    /\ [](\A caller \in EOAs, completer \in Users,
             totalReward \in PayoutArgs, token \in {Tok, BadTok} :
            LET e == PS_distributePayoutErr(caller, completer, totalReward, token)
            IN  /\ (\/ caller # psTaskRegistry
                    \/ token \notin psSupportedTokens
                    \/ balance[SplitterAddr] < totalReward) => e # "ok"
                /\ caller # psTaskRegistry
                       => e = "Only task registry can trigger payout"
                /\ (caller = psTaskRegistry /\ token \notin psSupportedTokens)
                       => e = "Token not supported"
                /\ (/\ caller = psTaskRegistry
                    /\ token \in psSupportedTokens
                    /\ totalReward > 0
                    /\ balance[SplitterAddr] < totalReward)
                       => e = "Insufficient contract balance")
    /\ [][/\ Len(payoutLog') > Len(payoutLog) =>
                /\ psTaskRegistry \in EOAs
                /\ Tok \in psSupportedTokens
                /\ balance[SplitterAddr] >= payoutLog'[Len(payoutLog')].totalAmount
          /\ Len(payoutLog') = Len(payoutLog) =>
                /\ referrals' = referrals
                /\ \A u \in Users : balance'[u] = balance[u]
         ]_vars

\* C24 witness: the pool was funded and then holds less than 100, the
\* token is supported and bob is the task registry: bob's payout of 100 is
\* rejected for the balance, alice's for the caller, and one with the
\* unsupported token for the token.
C24_Witness ==
    /\ balance[SplitterAddr] < 100 /\ balance[SplitterAddr] >= 70
    /\ psTaskRegistry = "bob"
    /\ PS_distributePayoutErr("bob", "alice", 100, Tok) = "Insufficient contract balance"
    /\ PS_distributePayoutErr("alice", "alice", 100, Tok)
           = "Only task registry can trigger payout"
    /\ PS_distributePayoutErr("bob", "alice", 100, BadTok) = "Token not supported"
    /\ PS_distributePayoutErr("bob", "alice", 10, Tok) = "ok"

\* C26: a qualifying verdict settles the pair only against a pool that holds
\* the reward: the step that records the payout of (task, participant)
\* happens with a pool balance of at least the task's reward and moves the
\* reward out of the pool as one distribution; otherwise the pair stays
\* unpaid until the pool is topped up, and it is paid at most once.
C26_PayoutNeedsFundedPool ==
    /\ [](\A t \in TaskIds, u \in Users : payoutCount[t][u] <= 1)
    /\ [][\A t \in TaskIds, u \in Users :
            payoutCount'[t][u] > payoutCount[t][u] =>
                /\ balance[SplitterAddr] >= tasks[t].rewardAmount
                /\ Len(payoutLog') = Len(payoutLog) + 1
                /\ payoutLog'[Len(payoutLog')].taskCompleter = u
                /\ payoutLog'[Len(payoutLog')].totalAmount = tasks[t].rewardAmount
         ]_vars

\* C27 as stated: the pool balance decreases only in a step that is an
\* accepted distributePayout.
C27_OnlyPayoutsDrainPool ==
    [][balance'[SplitterAddr] < balance[SplitterAddr]
        => Len(payoutLog') = Len(payoutLog) + 1
      ]_vars

\* C27 amended: the pool balance decreases only in an accepted
\* distributePayout or in an emergencyWithdraw, which pays the withdrawn
\* amount to the owner and to nobody else.
C27_PayoutOrOwnerWithdrawal ==
    [][balance'[SplitterAddr] < balance[SplitterAddr] =>
        \/ Len(payoutLog') = Len(payoutLog) + 1
        \/ /\ payoutLog' = payoutLog
           /\ balance'[Owner] - balance[Owner]
                  = balance[SplitterAddr] - balance'[SplitterAddr]
           /\ \A u \in Users : balance'[u] = balance[u]
      ]_vars

\* C27 witness: the owner withdrew from the funded pool: no payout was
\* made, the pool holds less than it received and the owner holds the
\* difference.
C27_Witness ==
    /\ payoutLog = << >>
    /\ balance[Owner] = 10
    /\ balance[SplitterAddr] = 90

\* C28: a step that changes a task's status changes nothing else: every
\* other field of that task, every other task, every completion, every
\* earnings total and every payout already made stay as they were.
C28_StatusChangeOnly ==
    [][\A t \in TaskIds :
        tasks'[t].status # tasks[t].status =>
            /\ tasks' = [tasks EXCEPT ![t].status = tasks'[t].status]
            /\ taskCompletions' = taskCompletions
            /\ userTotalEarnings' = userTotalEarnings
            /\ payoutCount' = payoutCount
            /\ nextTaskId' = nextTaskId
      ]_vars

\* C28 witness: a task whose participant was paid is no longer Active: the
\* completion, the participant count and the earnings are still there.
C28_Witness ==
    \E t \in TaskIds, u \in Users :
        /\ tasks[t].status = "CANCELLED"
        /\ tasks[t].currentParticipants = 1
        /\ taskCompletions[t][u].completed /\ taskCompletions[t][u].verified
        /\ payoutCount[t][u] = 1
        /\ userTotalEarnings[u] = tasks[t].rewardAmount
        /\ tasks[t].rewardAmount > 0

\* C29: nothing unwinds a completion that waits for its verdict: in every
\* step a completion stays recorded and its task's participant count does
\* not decrease, and as long as the completion stays unverified (no verdict,
\* or no verifying verdict, arrives) nothing is paid for the pair, however
\* much time passes.
C29_PendingCompletionStays ==
    [][\A t \in TaskIds, u \in Users :
        taskCompletions[t][u].completed =>
            /\ taskCompletions'[t][u].completed
            /\ tasks'[t].currentParticipants >= tasks[t].currentParticipants
            /\ (~taskCompletions[t][u].verified /\ ~taskCompletions'[t][u].verified)
                   => payoutCount'[t][u] = payoutCount[t][u]
      ]_vars

\* C29 witness: the task's window has closed and no verdict was ever
\* delivered for a completion: it is still recorded, unverified with the
\* score it was created with, counted, and unpaid.
C29_Witness ==
    \E t \in TaskIds, u \in Users :
        /\ now > tasks[t].endTime
        /\ taskCompletions[t][u] =
               [completed |-> TRUE, verified |-> FALSE, sybilScore |-> 0]
        /\ tasks[t].currentParticipants >= 1
        /\ payoutCount[t][u] = 0 /\ userTotalEarnings[u] = 0

\* C30: every created task has at most maxParticipants participants, an
\* end time after its start time, and a reward token that is on the
\* registry's allow-list.
C30_TaskInvariant ==
    \A t \in TaskIds :
        t < nextTaskId =>
            /\ tasks[t].currentParticipants <= tasks[t].maxParticipants
            /\ tasks[t].endTime > tasks[t].startTime
            /\ tasks[t].rewardToken \in supportedTokens

\* C30 witness: a created task has reached its cap of two participants,
\* the time has moved past its end, and its token is on the allow-list.
C30_Witness ==
    \E t \in TaskIds :
        /\ t < nextTaskId
        /\ tasks[t].maxParticipants = 2
        /\ tasks[t].currentParticipants = 2
        /\ now > tasks[t].endTime
        /\ tasks[t].rewardToken = Tok

\* The step creates the completion of (t, u) or changes t's participant count.
SubmissionTakesEffect(t, u) ==
    \/ taskCompletions'[t][u].completed # taskCompletions[t][u].completed
    \/ tasks'[t].currentParticipants # tasks[t].currentParticipants

C32_KnownCodeRegisters ==
    \A caller \in Users \ registeredUsers :
        /\ \A p \in {<<"code-alice", "alice">>, <<"code-bob", "bob">>} :
               p[2] # caller => PS_registerWithReferralErr(caller, p[1]) = "ok"
        /\ \A code \in ReferralCodes :
               PS_registerWithReferralErr(caller, code) = "Invalid referral code"
                   => code = "code-none"

\* The risk level returned with a score is the one the claim assigns to it.
LevelMatchesScore(r) ==
    /\ r.riskLevel = "LOW" <=> r.score >= 80
    /\ r.riskLevel = "MEDIUM" <=> (60 <= r.score /\ r.score < 80)
    /\ r.riskLevel = "HIGH" <=> r.score < 60

\* C34: calculateSybilScore and advancedSybilDetection return a score in
\* 0..100 with the risk level LOW exactly from 80, MEDIUM exactly in 60..79
\* and HIGH exactly below 60, and getOGComputeSybilScore returns a number in
\* 0..100 whatever the remote service answers.
C34_ScoresInRange ==
    /\ scoreResult.fn # "none" => scoreResult.score \in 0..100
    /\ scoreResult.fn \in {"calculateSybilScore", "advancedSybilDetection"}
           => LevelMatchesScore(scoreResult)

\* C34, the local scorers alone: their score is in 0..100 and the risk level
\* is the one the claim assigns to the score.
C34_LocalScoresInRange ==
    scoreResult.fn \in {"calculateSybilScore", "advancedSybilDetection"}
        => (scoreResult.score \in 0..100 /\ LevelMatchesScore(scoreResult))

\* C35: in every reachable state each task's currentParticipants is the
\* number of completion records of that task, and no step decreases it.
C35_CountIsCompletions ==
    /\ [](\A t \in TaskIds :
            tasks[t].currentParticipants
                = Cardinality({u \in Users : taskCompletions[t][u].completed}))
    /\ [][\A t \in TaskIds :
            tasks'[t].currentParticipants >= tasks[t].currentParticipants
         ]_vars

\* C35 witness: a task that accepted two participants was paused
\* afterwards: it still counts two participants and holds two completion
\* records, and a third participant's record is still empty.
C35_Witness ==
    \E t \in TaskIds, u \in Users :
        /\ tasks[t].status = "PAUSED"
        /\ tasks[t].currentParticipants = 2
        /\ Cardinality(Participants(t)) = 2
        /\ taskCompletions[t][u] = EmptyCompletion

\* C36: in every reachable state of the gateway an identity is authorized to
\* deliver verdicts if and only if it is the registered oracle of at least
\* one verification type.
C36_AuthorizedIffRegistered ==
    \A a \in EOAs :
        a \in authorizedOracles
            <=> \E vtype \in VerificationTypes : oracleAddresses[vtype] = a

\* C38: a distributePayout call that passes its entry checks (caller is the
\* task registry, token supported, reward > 0, pool balance >= reward) is
\* carried out in full: the amounts it transfers add up to at most the
\* reward, so no transfer fails for lack of balance, and an accepted payout
\* takes at most its reward out of the pool.
C38_AcceptedPayoutCompletes ==
    /\ [](\A caller \in EOAs, completer \in Users,
             totalReward \in PayoutArgs, token \in {Tok, BadTok} :
            (/\ caller = psTaskRegistry
             /\ token \in psSupportedTokens
             /\ totalReward > 0
             /\ balance[SplitterAddr] >= totalReward)
                => /\ SumAll(PS_transfers(completer, totalReward)) <= totalReward
                   /\ PS_distributePayoutErr(caller, completer, totalReward, token)
                          = "ok")
    /\ [][Len(payoutLog') > Len(payoutLog) =>
            /\ balance[SplitterAddr] - balance'[SplitterAddr]
                   <= payoutLog'[Len(payoutLog')].totalAmount
            /\ balance'[SplitterAddr] >= 0
         ]_vars

\* C38 witness: a payout of 100 was made from a pool that held exactly 100:
\* the completer received 60, the platform wallet 10, and 30 are left.
C38_Witness ==
    /\ Len(payoutLog) = 1
    /\ payoutLog[1].totalAmount = 100
    /\ balance[SplitterAddr] = 30
    /\ balance[payoutLog[1].taskCompleter] = 60
    /\ balance[platformWallet] = 10

RECURSIVE CompleterEarned(_, _)
\* Sum of the completer amounts of the first n payouts made to a.
CompleterEarned(a, n) ==
    IF n = 0 THEN 0
    ELSE (IF payoutLog[n].taskCompleter = a THEN payoutLog[n].completerAmount ELSE 0)
         + CompleterEarned(a, n - 1)

\* C39: for every identity the cumulative earnings are the earnings received
\* as completing participant plus the direct-role plus the indirect-role
\* earnings, and every accepted distributePayout increases a recipient's
\* earnings fields by exactly the tokens transferred to it as completer,
\* direct or indirect referrer (the platform fee is not an earning).
C39_EarningsAddUp ==
    /\ [](\A a \in Users :
            referrals[a].totalEarnings =
                CompleterEarned(a, Len(payoutLog))
                + referrals[a].directEarnings + referrals[a].indirectEarnings)
    /\ [][Len(payoutLog') > Len(payoutLog) =>
            \A a \in Users :
                LET p    == payoutLog'[Len(payoutLog')]
                    got  == balance'[a] - balance[a]
                            - (IF a = platformWallet THEN p.platformAmount ELSE 0)
                    asCompleter == IF a = p.taskCompleter THEN p.completerAmount ELSE 0
                IN  /\ referrals'[a].totalEarnings = referrals[a].totalEarnings + got
                    /\ (referrals'[a].directEarnings - referrals[a].directEarnings)
                       + (referrals'[a].indirectEarnings - referrals[a].indirectEarnings)
                       + asCompleter = got
         ]_vars

\* C39 witness: one participant, who is not the platform wallet, was paid
\* for a reward of 100 and for a reward of 10: its cumulative earnings are
\* 66, the tokens it holds, all earned as completing participant.
C39_Witness ==
    \E a \in Users :
        /\ Len(payoutLog) = 2
        /\ payoutLog[1].taskCompleter = a /\ payoutLog[2].taskCompleter = a
        /\ payoutLog[1].totalAmount # payoutLog[2].totalAmount
        /\ referrals[a].totalEarnings = 66
        /\ balance[a] = 66

\* C40: verifyTaskCompletion depends neither on the task's status nor on the
\* time: the oracle's verdict for an existing completion is accepted in every
\* state, and a qualifying verdict written while the task is Paused,
\* Cancelled or Completed, or after its end time, credits the task's reward
\* in the same step.
C40_LateVerdictSettles ==
    /\ [](\A t \in TaskIds, u \in Users :
            taskCompletions[t][u].completed
                => TR_verifyTaskCompletionErr(verificationOracle, t, u) = "ok")
    /\ [][\A t \in TaskIds, u \in Users :
            (/\ taskCompletions[t][u].completed
             /\ tasks[t].status # "ACTIVE" \/ now > tasks[t].endTime
             /\ taskCompletions'[t][u] # taskCompletions[t][u]
             /\ PayoutDue(taskCompletions'[t][u].verified,
                          taskCompletions'[t][u].sybilScore,
                          tasks[t].sybilThreshold))
                => /\ payoutCount'[t][u] = payoutCount[t][u] + 1
                   /\ userTotalEarnings'[u]
                          = userTotalEarnings[u] + tasks[t].rewardAmount
         ]_vars

\* C40 witness: a task is cancelled and past its end time, the oracle is
\* an identity that makes calls, and a completion of the task is verified
\* and was paid the task's reward.
C40_Witness ==
    \E t \in TaskIds, u \in Users :
        /\ tasks[t].status = "CANCELLED"
        /\ now > tasks[t].endTime
        /\ taskCompletions[t][u].completed /\ taskCompletions[t][u].verified
        /\ payoutCount[t][u] = 1
        /\ userTotalEarnings[u] = tasks[t].rewardAmount
        /\ tasks[t].rewardAmount > 0
        /\ verificationOracle \in EOAs

====
